---------------------------- MODULE Spec2Model ----------------------------
(***************************************************************************)
(* Barnes-Hut octree of the planetesimal simulation.                       *)
(*                                                                         *)
(* The repository holds two octrees:                                       *)
(*   - src/src/OctreeNode.js : one body per leaf ("OctreeNode.js" below),  *)
(*   - src/src/octree.js     : bucketed leaves, used by src/src/sim.js     *)
(*                             ("octree.js" below).                        *)
(* The variable impl says which of the two a behaviour runs.               *)
(*                                                                         *)
(* JavaScript numbers are modelled by exact rationals <<n, d>> (d > 0,     *)
(* lowest terms); floating-point rounding is not modelled.  A force is a   *)
(* sum of vectors strength * delta / |delta|; such a vector is a rational  *)
(* vector times 1/Sqrt(t) for one squarefree t, and the square roots of    *)
(* distinct squarefree integers are linearly independent over the          *)
(* rationals, so a force is kept as the function  t |-> rational vector    *)
(* (zero entries dropped), which is a canonical form: two forces are equal *)
(* as vectors exactly when these functions are equal.                      *)
(***************************************************************************)
EXTENDS Integers, Sequences, FiniteSets, TLC

VARIABLES impl, bodies, root, inserted, status, walk, prevBuild, tick, oct

vars == <<impl, bodies, root, inserted, status, walk, prevBuild, tick, oct>>

(***************************************************************************)
(* Bounds of the model.                                                    *)
(***************************************************************************)
\* bodies of a Simulation running OctreeNode.js trees
MaxBodiesStrict == 3
\* size of the cluster of bodies of a Simulation running octree.js trees
MaxCluster == 10
\* bodies of an octree.js Simulation that follow the cluster
MaxFree == 1
\* nested insert calls the call stack holds before a RangeError is thrown
MaxDepth == 8
\* bodies of a Simulation whose update is followed statement by statement
MaxTickBodies == 2
\* root.remove(body) calls in one behaviour of UpdateSpec
MaxRemoves == 1

(***************************************************************************)
(* Numbers: exact rationals.                                               *)
(***************************************************************************)
Abs(x) == IF x < 0 THEN -x ELSE x

RECURSIVE GCD(_, _)
GCD(a, b) == IF b = 0 THEN a ELSE GCD(b, a % b)

\* n / d.  <<1, 0>> and <<-1, 0>> are Infinity and -Infinity, <<0, 0>> is NaN
\* (0 / 0, Infinity - Infinity, 0 * Infinity).
Rat(n, d) ==
    LET over(g) == IF d < 0 THEN <<(-n) \div g, (-d) \div g>>
                   ELSE <<n \div g, d \div g>>
    IN  IF n = 0 /\ d = 0 THEN <<0, 0>> ELSE over(GCD(Abs(n), Abs(d)))

R(i) == <<i, 1>>

LCM(a, b) == (a \div GCD(a, b)) * b

\* a + b and a - b, over the least common denominator of two finite numbers
RAdd(a, b) ==
    LET over(l) == Rat(a[1] * (l \div a[2]) + b[1] * (l \div b[2]), l)
    IN  IF a[2] = 0 \/ b[2] = 0
        THEN Rat(a[1] * b[2] + b[1] * a[2], a[2] * b[2])
        ELSE over(LCM(a[2], b[2]))

RSub(a, b) ==
    LET over(l) == Rat(a[1] * (l \div a[2]) - b[1] * (l \div b[2]), l)
    IN  IF a[2] = 0 \/ b[2] = 0
        THEN Rat(a[1] * b[2] - b[1] * a[2], a[2] * b[2])
        ELSE over(LCM(a[2], b[2]))

RMul(a, b) == Rat(a[1] * b[1], a[2] * b[2])
RDiv(a, b) == Rat(a[1] * b[2], a[2] * b[1])
RLt(a, b) == a[1] * b[2] < b[1] * a[2]
RLe(a, b) == a[1] * b[2] <= b[1] * a[2]
RGe(a, b) == RLe(b, a)
Half == <<1, 2>>

(***************************************************************************)
(* Vec3 (cannon / cannon-es), as the sources use it.                       *)
(***************************************************************************)
Vec3(x, y, z) == <<x, y, z>>
ZeroVec == <<R(0), R(0), R(0)>>
vadd(u, v) == <<RAdd(u[1], v[1]), RAdd(u[2], v[2]), RAdd(u[3], v[3])>>
vsub(u, v) == <<RSub(u[1], v[1]), RSub(u[2], v[2]), RSub(u[3], v[3])>>
scale(v, k) == <<RMul(v[1], k), RMul(v[2], k), RMul(v[3], k)>>
norm2(v) == RAdd(RMul(v[1], v[1]), RAdd(RMul(v[2], v[2]), RMul(v[3], v[3])))
distanceSquared(u, v) == norm2(vsub(u, v))

\* body b of the simulation: the tree holds references to the body objects
Position(b) == bodies[b].position
Mass(b) == bodies[b].mass


(***************************************************************************)
(* src/src/OctreeNode.js : class OctreeNode (one body per leaf).           *)
(* A node is a record; children is the array of 8 slots, a slot being <<>> *)
(* (null) or <<child>>; body is a body index, 0 for null.                  *)
(***************************************************************************)
OctreeNode_new(center, halfDimension) ==
    [center |-> center,
     halfDimension |-> halfDimension,
     children |-> [i \in 0..7 |-> <<>>],
     body |-> 0,
     mass |-> 0,
     centerOfMass |-> ZeroVec]

OctreeNode_isLeaf(n) == \A i \in 0..7 : n.children[i] = <<>>

OctreeNode_getOctantIndex(n, position) ==
      (IF RGe(position[1], n.center[1]) THEN 4 ELSE 0)
    + (IF RGe(position[2], n.center[2]) THEN 2 ELSE 0)
    + (IF RGe(position[3], n.center[3]) THEN 1 ELSE 0)

\* i & 4, i & 2, i & 1
Bit(i, b) == (i \div b) % 2 = 1

\* (i & b ? 0.5 : -0.5)
Sign05(i, b) == IF Bit(i, b) THEN <<1, 2>> ELSE <<-1, 2>>

OctreeNode_subdivide(n) ==
    LET newHalf == scale(n.halfDimension, Half)
    IN  [n EXCEPT !.children =
            [i \in 0..7 |->
                <<OctreeNode_new(
                    Vec3(RAdd(n.center[1], RMul(newHalf[1], Sign05(i, 4))),
                         RAdd(n.center[2], RMul(newHalf[2], Sign05(i, 2))),
                         RAdd(n.center[3], RMul(newHalf[3], Sign05(i, 1)))),
                    newHalf)>>]]

\* the child the insert path creates when the slot is null (lines 75-82)
OctreeNode_lazyChild(n, octantIndex) ==
    OctreeNode_new(
        Vec3(RAdd(n.center[1], RMul(n.halfDimension[1], Sign05(octantIndex, 4))),
             RAdd(n.center[2], RMul(n.halfDimension[2], Sign05(octantIndex, 2))),
             RAdd(n.center[3], RMul(n.halfDimension[3], Sign05(octantIndex, 1)))),
        scale(n.halfDimension, Half))

\* updateMassAndCenterOfMass without the weights this.mass and body.mass
OctreeNode_updateMassAndCenterOfMass_unweighted(n, b) ==
    [n EXCEPT !.centerOfMass = scale(vadd(n.centerOfMass, Position(b)), Half),
              !.mass = n.mass + Mass(b)]

OctreeNode_updateMassAndCenterOfMass(n, b) ==
    LET com(totalMass) ==
            scale(vadd(scale(n.centerOfMass, R(n.mass)),
                       scale(Position(b), R(Mass(b)))),
                  Rat(1, totalMass))
    IN  [n EXCEPT !.centerOfMass = com(n.mass + Mass(b)),
                  !.mass = n.mass + Mass(b)]

\* insert(body), as [node, thrown]: thrown when the recursion is deeper than
\* the call stack (RangeError); the nodes keep what was assigned before the
\* throw.
RECURSIVE OctreeNode_insert(_, _, _)
OctreeNode_insert(n, b, depth) ==
    LET \* lines 66-70: the node's own body goes down into its octant
        moved(s, k, r) ==
            IF r.thrown
            THEN [node |-> [s EXCEPT !.children[k] = <<r.node>>],
                  thrown |-> TRUE]
            ELSE [node |-> [s EXCEPT !.children[k] = <<r.node>>, !.body = 0],
                  thrown |-> FALSE]
        moveInto(s, k) ==
            moved(s, k, OctreeNode_insert(s.children[k][1], s.body, depth + 1))
        split(s) == moveInto(s, OctreeNode_getOctantIndex(s, Position(s.body)))
        \* lines 73-86: the new body goes down into its octant
        inserted_(m, octantIndex, r) ==
            IF r.thrown
            THEN [node |-> [m EXCEPT !.children[octantIndex] = <<r.node>>],
                  thrown |-> TRUE]
            ELSE [node |-> OctreeNode_updateMassAndCenterOfMass(
                               [m EXCEPT !.children[octantIndex] = <<r.node>>],
                               b),
                  thrown |-> FALSE]
        insertInto(m, octantIndex) ==
            inserted_(m, octantIndex,
                      OctreeNode_insert(m.children[octantIndex][1], b,
                                        depth + 1))
        withChild(m, octantIndex) ==
            IF m.children[octantIndex] = <<>>
            THEN [m EXCEPT !.children[octantIndex] =
                      <<OctreeNode_lazyChild(m, octantIndex)>>]
            ELSE m
        at(m, octantIndex) ==
            insertInto(withChild(m, octantIndex), octantIndex)
        descend(m) == at(m, OctreeNode_getOctantIndex(m, Position(b)))
        afterSplit(r) == IF r.thrown THEN r ELSE descend(r.node)
    IN  IF depth > MaxDepth THEN [node |-> n, thrown |-> TRUE]
        ELSE IF n.body = 0 /\ OctreeNode_isLeaf(n)
        THEN [node |-> [n EXCEPT !.body = b,
                                 !.mass = Mass(b),
                                 !.centerOfMass = Position(b)],
              thrown |-> FALSE]
        ELSE IF OctreeNode_isLeaf(n)
        THEN afterSplit(split(OctreeNode_subdivide(n)))
        ELSE descend(n)

\* clear() without the loop over this.children
OctreeNode_clear_keepsChildren(n) ==
    [n EXCEPT !.mass = 0,
              !.centerOfMass = ZeroVec,
              !.body = 0]

\* clear(): resets this node and drops every child
OctreeNode_clear(n) ==
    [n EXCEPT !.mass = 0,
              !.centerOfMass = ZeroVec,
              !.body = 0,
              !.children = [i \in 0..7 |-> <<>>]]

(***************************************************************************)
(* src/src/octree.js : class OctreeNode (bucketed leaves), named OctNode   *)
(* here, and class Octree.  children is the array of child nodes (empty    *)
(* for a leaf), bodies the array of body indices.                          *)
(***************************************************************************)
MAX_BODIES_PER_NODE == 10

OctNode_new(center, halfSize) ==
    [center |-> center,
     halfSize |-> halfSize,
     mass |-> 0,
     com |-> ZeroVec,
     isLeaf |-> TRUE,
     bodies |-> <<>>,
     children |-> <<>>]

OctNode_contains(n, point) ==
    /\ RGe(point[1], RSub(n.center[1], n.halfSize))
    /\ RLe(point[1], RAdd(n.center[1], n.halfSize))
    /\ RGe(point[2], RSub(n.center[2], n.halfSize))
    /\ RLe(point[2], RAdd(n.center[2], n.halfSize))
    /\ RGe(point[3], RSub(n.center[3], n.halfSize))
    /\ RLe(point[3], RAdd(n.center[3], n.halfSize))

\* updateMassDistribution with  this.mass = body.mass  for the last line
OctNode_updateMassDistribution_overwritesMass(n, b) ==
    LET axis(i, newMass) ==
            RDiv(RAdd(RMul(n.com[i], R(n.mass)),
                      RMul(Position(b)[i], R(Mass(b)))),
                 R(newMass))
        com(newMass) == <<axis(1, newMass), axis(2, newMass), axis(3, newMass)>>
    IN  [n EXCEPT !.com = com(n.mass + Mass(b)), !.mass = Mass(b)]

OctNode_updateMassDistribution(n, b) ==
    LET axis(i, newMass) ==
            RDiv(RAdd(RMul(n.com[i], R(n.mass)),
                      RMul(Position(b)[i], R(Mass(b)))),
                 R(newMass))
        com(newMass) == <<axis(1, newMass), axis(2, newMass), axis(3, newMass)>>
    IN  [n EXCEPT !.com = com(n.mass + Mass(b)), !.mass = n.mass + Mass(b)]

\* the k-th child pushed by the x, y, z loops of subdivide (k = 1..8)
OctNode_childCenter(n, quarterSize, k) ==
    LET x == IF (k - 1) \div 4 = 0 THEN R(-1) ELSE R(1)
        y == IF ((k - 1) \div 2) % 2 = 0 THEN R(-1) ELSE R(1)
        z == IF (k - 1) % 2 = 0 THEN R(-1) ELSE R(1)
    IN  Vec3(RAdd(n.center[1], RMul(x, quarterSize)),
             RAdd(n.center[2], RMul(y, quarterSize)),
             RAdd(n.center[3], RMul(z, quarterSize)))

RECURSIVE OctNode_insert(_, _, _)
RECURSIVE OctNode_insertIntoChild(_, _, _)
RECURSIVE OctNode_moveBodies(_, _, _, _)

\* bodiesToMove.forEach(body => this._insertIntoChild(body)), up to and with
\* the k-th body; a throw ends it
OctNode_moveBodies(n, bodiesToMove, k, depth) ==
    LET next(before) ==
            IF before.thrown THEN before
            ELSE OctNode_insertIntoChild(before.node, bodiesToMove[k], depth)
    IN  IF k = 0 THEN [node |-> n, thrown |-> FALSE]
        ELSE next(OctNode_moveBodies(n, bodiesToMove, k - 1, depth))

\* subdivide() that empties this.bodies and creates no child
OctNode_subdivide_createsNoChild(n, depth) ==
    [node |-> [n EXCEPT !.bodies = <<>>], thrown |-> FALSE]

OctNode_subdivide(n, depth) ==
    LET children(quarterSize) ==
            [k \in 1..8 |->
                OctNode_new(OctNode_childCenter(n, quarterSize, k),
                            quarterSize)]
    IN  OctNode_moveBodies(
            [n EXCEPT !.children = n.children \o children(RMul(n.halfSize, Half)),
                      !.isLeaf = FALSE,
                      !.bodies = <<>>],
            n.bodies, Len(n.bodies), depth)

\* the first child that contains the position takes the body; none: dropped
OctNode_insertIntoChild(n, b, depth) ==
    LET put(k, r) == [node |-> [n EXCEPT !.children[k] = r.node],
                      thrown |-> r.thrown]
        into(k) == put(k, OctNode_insert(n.children[k], b, depth + 1))
        first(hits) ==
            IF hits = {} THEN [node |-> n, thrown |-> FALSE]
            ELSE into(CHOOSE i \in hits : \A j \in hits : i <= j)
    IN  first({k \in 1..Len(n.children) :
                  OctNode_contains(n.children[k], Position(b))})

\* insert(body) that pushes the body and never subdivides
OctNode_insert_neverSubdivides(n, b, depth) ==
    [node |-> OctNode_updateMassDistribution(
                  [n EXCEPT !.bodies = Append(@, b)], b),
     thrown |-> FALSE]

OctNode_insert(n, b, depth) ==
    LET full(m) == Len(m.bodies) > MAX_BODIES_PER_NODE
        pushed(m) == IF full(m) THEN OctNode_subdivide(m, depth)
                     ELSE [node |-> m, thrown |-> FALSE]
        checked(m) == IF m.isLeaf /\ full(m) THEN OctNode_subdivide(m, depth)
                      ELSE [node |-> m, thrown |-> FALSE]
        updated(r) == IF r.thrown THEN r
                      ELSE checked(OctNode_updateMassDistribution(r.node, b))
    IN  IF depth > MaxDepth THEN [node |-> n, thrown |-> TRUE]
        ELSE updated(IF ~n.isLeaf
                     THEN OctNode_insertIntoChild(n, b, depth)
                     ELSE pushed([n EXCEPT !.bodies = Append(@, b)]))

\* clear() with a root that keeps the old root's bodies
Octree_clear_keepsBodies(r) ==
    [OctNode_new(r.center, r.halfSize) EXCEPT !.bodies = r.bodies]

\* clear() with a root that keeps the old root's mass and centre of mass
Octree_clear_keepsAggregates(r) ==
    [OctNode_new(r.center, r.halfSize) EXCEPT !.mass = r.mass, !.com = r.com]

\* Octree.clear(): a new root with the old root's centre and half size
Octree_clear(r) == OctNode_new(r.center, r.halfSize)

(***************************************************************************)
(* Forces.  unit(delta) * strength, added to a force kept in the canonical *)
(* form  t |-> rational vector  (the vector's coefficient of 1/Sqrt(t)).   *)
(***************************************************************************)
GravityConstant == 1

ZeroForce == [t \in {} |-> ZeroVec]

\* the shortest integer vector in the direction of the nonzero vector delta
Primitive(delta) ==
    LET shortest(i, g) == [a \in 1..3 |-> i[a] \div g]
        reduced(i) ==
            shortest(i, GCD(Abs(i[1]), GCD(Abs(i[2]), Abs(i[3]))))
        cleared(l) ==
            reduced([a \in 1..3 |-> delta[a][1] * (l \div delta[a][2])])
    IN  cleared(LCM(delta[1][2], LCM(delta[2][2], delta[3][2])))

\* the largest s with s * s dividing n = |p|^2 (s is at most m, the sum of
\* the |p[a]|)
SquarePart(n, m) ==
    LET largest(squares) == CHOOSE k \in squares : \A j \in squares : j <= k
    IN  largest({k \in 1..m : k * k <= n /\ n % (k * k) = 0})

\* what unit() of the zero vector gives once scaled by the strength of a
\* distance 0 (a division by 0): no finite vector, kept under the key 0
NotFinite == [t \in {0} |-> <<R(1), R(1), R(1)>>]

\* unit(delta).mult(strength): with p the primitive vector of delta and
\* |p|^2 = s^2 * t, unit(delta) = (p / s) * (1 / Sqrt(t))
UnitTimes(delta, strength) ==
    LET over(p, n, s) ==
            [t \in {n \div (s * s)} |->
                <<RMul(strength, Rat(p[1], s)),
                  RMul(strength, Rat(p[2], s)),
                  RMul(strength, Rat(p[3], s))>>]
        sized(p, n) ==
            over(p, n, SquarePart(n, Abs(p[1]) + Abs(p[2]) + Abs(p[3])))
        along(p) == sized(p, p[1] * p[1] + p[2] * p[2] + p[3] * p[3])
    IN  IF delta = ZeroVec THEN NotFinite
        ELSE IF strength = R(0) THEN ZeroForce
        ELSE along(Primitive(delta))

\* f.vadd(g): the sum of two forces
ForceAdd(f, g) ==
    LET at(h, t) == IF t \in DOMAIN h THEN h[t] ELSE ZeroVec
        kept(sum) == [t \in {x \in DOMAIN sum : sum[x] # ZeroVec} |-> sum[t]]
    IN  kept([t \in DOMAIN f \cup DOMAIN g |-> vadd(at(f, t), at(g, t))])

\* the forces of a sequence, added in order
RECURSIVE ForceSum(_, _)
ForceSum(fs, k) ==
    IF k = 0 THEN ZeroForce ELSE ForceAdd(ForceSum(fs, k - 1), fs[k])

\* the sequences of a sequence, one after the other
RECURSIVE Concat(_, _)
Concat(qs, k) == IF k = 0 THEN <<>> ELSE Concat(qs, k - 1) \o qs[k]

\* the opposite force
NegForce(force) == [t \in DOMAIN force |-> scale(force[t], R(-1))]

\* the bodies held in the subtree of a node
RECURSIVE OctreeNode_bodiesIn(_)
OctreeNode_bodiesIn(n) ==
    (IF n.body = 0 THEN {} ELSE {n.body})
    \cup UNION {OctreeNode_bodiesIn(n.children[i][1]) :
                   i \in {j \in 0..7 : n.children[j] # <<>>}}

RECURSIVE OctNode_bodiesIn(_)
OctNode_bodiesIn(n) ==
    {n.bodies[i] : i \in 1..Len(n.bodies)}
    \cup UNION {OctNode_bodiesIn(n.children[k]) : k \in 1..Len(n.children)}

\* One entry of the record of a walk: the node visited (its path from the
\* root), what the walk did there, and what it read.
\* holds: the bodies in the node's subtree; from: the bodies of a leaf whose
\* own term was added.
Visit(path, act, isLeaf, mass, extent, d2, at, holds, from) ==
    [path |-> path, act |-> act, isLeaf |-> isLeaf, mass |-> mass,
     extent |-> extent, d2 |-> d2, at |-> at, holds |-> holds, from |-> from]

(***************************************************************************)
(* OctreeNode.js : calculateForcesOnBody(body, theta, force, G).           *)
(***************************************************************************)
\* this.size * this.size / distanceSquared < theta * theta : no line of
\* OctreeNode.js assigns this.size, so the left side is NaN and the
\* comparison is false.
OctreeNode_farEnough(n, distanceSquared_, theta) == FALSE

\* calculateForcesOnBody(body, theta, force, G), as what the call adds to
\* force and the visits it makes, in order
RECURSIVE OctreeNode_calculateForcesOnBody(_, _, _, _)
OctreeNode_calculateForcesOnBody(n, b, theta, path) ==
    LET seen(act, d2) ==
            Visit(path, act, OctreeNode_isLeaf(n), n.mass, n.halfDimension[1],
                  d2, n.centerOfMass, OctreeNode_bodiesIn(n), {})
        \* for (let child of this.children) child?.calculateForcesOnBody
        gathered(rs, d2) ==
            [force |-> ForceSum([k \in 1..8 |-> rs[k].force], 8),
             log |-> <<seen("recurse", d2)>>
                     \o Concat([k \in 1..8 |-> rs[k].log], 8)]
        children(d2) ==
            gathered([k \in 1..8 |->
                         IF n.children[k - 1] = <<>>
                         THEN [force |-> ZeroForce, log |-> <<>>]
                         ELSE OctreeNode_calculateForcesOnBody(
                                  n.children[k - 1][1], b, theta,
                                  Append(path, k - 1))],
                     d2)
        point(d2) ==
            [force |-> UnitTimes(
                           vsub(n.centerOfMass, Position(b)),
                           RDiv(R(GravityConstant * n.mass * Mass(b)), d2)),
             log |-> <<seen("point", d2)>>]
        from(d2) ==
            IF n.mass = 0 \/ b = n.body
            THEN [force |-> ZeroForce, log |-> <<seen("return", d2)>>]
            ELSE IF d2 = R(0)
            THEN [force |-> ZeroForce, log |-> <<seen("return", d2)>>]
            ELSE IF OctreeNode_farEnough(n, d2, theta) \/ OctreeNode_isLeaf(n)
            THEN point(d2)
            ELSE children(d2)
    IN  from(distanceSquared(n.centerOfMass, Position(b)))

(***************************************************************************)
(* octree.js : Octree.calculateGravity(body, theta) and _calculateGravity. *)
(***************************************************************************)
\* (node.halfSize / distance) < theta, distance = Sqrt(d2): both sides are
\* squared; a distance of 0 gives Infinity (or NaN), which is not < theta.
Octree_farEnough(n, d2, theta) ==
    /\ d2 # R(0)
    /\ RLt(RMul(n.halfSize, n.halfSize), RMul(RMul(theta, theta), d2))

\* distanceSquared > 1e-10: every rational of the model has a denominator
\* below 2^31 < 10^10, so it exceeds 1e-10 exactly when it is positive.
ExceedsEpsilon(distanceSquared_) == distanceSquared_[1] >= 1

\* the leaf branch with  body.mass * body.mass  for the product of the masses
Octree_leafForce_ownMassTwice(n, i, b) ==
    LET pull(otherBody, direction, distanceSquared_) ==
            IF otherBody # b /\ ExceedsEpsilon(distanceSquared_)
            THEN UnitTimes(direction,
                           RDiv(R(GravityConstant * Mass(b) * Mass(b)),
                                distanceSquared_))
            ELSE ZeroForce
        along(otherBody, direction) ==
            pull(otherBody, direction, norm2(direction))
        of(otherBody) ==
            along(otherBody, vsub(Position(otherBody), Position(b)))
    IN  of(n.bodies[i])

\* the leaf branch without  distanceSquared > 1e-10
Octree_leafForce_noEpsilon(n, i, b) ==
    LET pull(otherBody, direction, distanceSquared_) ==
            IF otherBody # b
            THEN UnitTimes(direction,
                           RDiv(R(GravityConstant * Mass(b) * Mass(otherBody)),
                                distanceSquared_))
            ELSE ZeroForce
        along(otherBody, direction) ==
            pull(otherBody, direction, norm2(direction))
        of(otherBody) ==
            along(otherBody, vsub(Position(otherBody), Position(b)))
    IN  of(n.bodies[i])

\* the leaf branch without  otherBody !== body  and  distanceSquared > 1e-10
Octree_leafForce_withSelf(n, i, b) ==
    LET pull(otherBody, direction, distanceSquared_) ==
            UnitTimes(direction,
                      RDiv(R(GravityConstant * Mass(b) * Mass(otherBody)),
                           distanceSquared_))
        along(otherBody, direction) ==
            pull(otherBody, direction, norm2(direction))
        of(otherBody) ==
            along(otherBody, vsub(Position(otherBody), Position(b)))
    IN  of(n.bodies[i])

\* what the leaf branch adds for otherBody = node.bodies[i]
Octree_leafForce(n, i, b) ==
    LET pull(otherBody, direction, distanceSquared_) ==
            IF otherBody # b /\ ExceedsEpsilon(distanceSquared_)
            THEN UnitTimes(direction,
                           RDiv(R(GravityConstant * Mass(b) * Mass(otherBody)),
                                distanceSquared_))
            ELSE ZeroForce
        along(otherBody, direction) ==
            pull(otherBody, direction, norm2(direction))
        of(otherBody) ==
            along(otherBody, vsub(Position(otherBody), Position(b)))
    IN  of(n.bodies[i])

\* the bodies of a leaf for which the leaf branch adds a term
Octree_leafFrom(n, b) ==
    {n.bodies[i] : i \in {j \in 1..Len(n.bodies) :
        /\ n.bodies[j] # b
        /\ ExceedsEpsilon(norm2(vsub(Position(n.bodies[j]), Position(b))))}}

\* _calculateGravity(node, body, theta, force), as what the call adds to
\* force and the visits it makes, in order
RECURSIVE Octree_calculateGravityRec(_, _, _, _)
Octree_calculateGravityRec(n, b, theta, path) ==
    LET seen(act, d2, from) ==
            Visit(path, act, n.isLeaf, n.mass, n.halfSize, d2, n.com,
                  OctNode_bodiesIn(n), from)
        gathered(rs, d2) ==
            [force |-> ForceSum([k \in DOMAIN rs |-> rs[k].force],
                                Len(n.children)),
             log |-> <<seen("recurse", d2, {})>>
                     \o Concat([k \in DOMAIN rs |-> rs[k].log],
                               Len(n.children))]
        children(d2) ==
            gathered([k \in 1..Len(n.children) |->
                         Octree_calculateGravityRec(n.children[k], b, theta,
                                                    Append(path, k))],
                     d2)
        point(directionToCOM, d2) ==
            [force |-> UnitTimes(
                           directionToCOM,
                           RDiv(R(GravityConstant * Mass(b) * n.mass), d2)),
             log |-> <<seen("point", d2, {})>>]
        leaf(d2) ==
            [force |-> ForceSum([i \in 1..Len(n.bodies) |->
                                    Octree_leafForce(n, i, b)],
                                Len(n.bodies)),
             log |-> <<seen("leaf", d2, Octree_leafFrom(n, b))>>]
        from(directionToCOM, d2) ==
            IF ~n.isLeaf
            THEN IF Octree_farEnough(n, d2, theta)
                 THEN point(directionToCOM, d2)
                 ELSE children(d2)
            ELSE leaf(d2)
        toward(directionToCOM) == from(directionToCOM, norm2(directionToCOM))
    IN  toward(vsub(n.com, Position(b)))

\* calculateGravity(body, theta): force starts at (0, 0, 0)
Octree_calculateGravity(r, b, theta) ==
    Octree_calculateGravityRec(r, b, theta, <<>>)

\* the caller's force = new Vec3(0, 0, 0); root.calculateForcesOnBody(...)
OctreeNode_calculateForces(r, b, theta) ==
    OctreeNode_calculateForcesOnBody(r, b, theta, <<>>)

\* _calculateGravity with  node.com.vsub(body.position, node.com)  for the
\* direction to the centre of mass of the root
Octree_rootAfterGravity_inPlace(r, b) ==
    IF r.isLeaf THEN r ELSE [r EXCEPT !.com = vsub(r.com, Position(b))]

\* this.root once calculateGravity(body, theta) has returned: the walk assigns
\* no field of a node; it takes the direction from a copy of node.com, new
\* CANNON.Vec3().copy(node.com).vsub(body.position), and of
\* otherBody.position, and adds to the vector it returns
Octree_rootAfterGravity(r, b) == r

\* the root once calculateForcesOnBody has returned: centerOfMass.vsub(
\* body.position) is a new vector, which normalize() and scale() work on,
\* and force is the caller's
OctreeNode_rootAfterForces(r, b) == r

(***************************************************************************)
(* The simulation's bodies and the tree's owner.                           *)
(*                                                                         *)
(* Simulation's constructor fills this.bodies (addCrystals) and builds an  *)
(* empty Octree over the cube of side worldSize centred at the origin;     *)
(* Init is that state, the bodies drawn from the families below.  Nothing  *)
(* in the repository constructs an OctreeNode.js root; its root is taken   *)
(* over the same cube.                                                     *)
(***************************************************************************)
WorldSize == 16

Body(x, y, z, m) == [position |-> Vec3(R(x), R(y), R(z)), mass |-> m]

RECURSIVE SeqsUpTo(_, _)
SeqsUpTo(S, n) ==
    IF n = 0 THEN {<<>>}
    ELSE LET shorter == SeqsUpTo(S, n - 1)
         IN  shorter \cup {Append(q, x) : q \in shorter, x \in S}

\* OctreeNode.js runs: every list of at most MaxBodiesStrict of these bodies
StrictKinds ==
    { Body(0, 0, 0, 1), Body(4, 0, 0, 1), Body(-2, 0, 0, 2),
      Body(5, 0, 0, 1), Body(-4, -4, -4, 1), Body(7, 0, 0, 1) }

StrictLists == SeqsUpTo(StrictKinds, MaxBodiesStrict)

\* octree.js runs: a cluster of bodies of mass 1 in the octant x, y, z < 0,
\* either stacked on one point or spread over three points in turn, small or
\* about as large as a leaf may grow (MaxCluster); before it, possibly a body
\* outside the root cube; after it, at most MaxFree more bodies.
ClusterPoint(i) ==
    IF i % 3 = 0 THEN Body(-3, -3, -3, 1)
    ELSE IF i % 3 = 1 THEN Body(-7, -3, -3, 1)
    ELSE Body(-3, -7, -3, 1)

Cluster(shape, c) ==
    [i \in 1..c |-> IF shape = "stacked" THEN ClusterPoint(0)
                    ELSE ClusterPoint(i - 1)]

ClusterSizes == {0, 1, 2, MaxCluster - 1, MaxCluster}

\* a body outside the root cube
Outside == Body(9, 0, 0, 1)

\* a body on the cluster's first point, a heavy body in the opposite corner
\* of the root cube, and the body outside the root cube
FreeKinds == { Body(-3, -3, -3, 1), Body(8, 8, 8, 2), Outside }

FreeLists == SeqsUpTo(FreeKinds, MaxFree)

BucketedLists ==
    { pre \o Cluster(shape, c) \o post :
        pre \in {<<>>, <<Outside>>}, post \in FreeLists,
        shape \in {"stacked", "spread"}, c \in ClusterSizes }

\* theta of a force query (sim.js passes none: the default 0.5)
Thetas == { <<1, 10>>, <<1, 2>>, <<3, 2>> }

NoWalk == [body |-> 0, theta |-> R(0), force |-> ZeroForce, log |-> <<>>]

\* no update is followed statement by statement
NoTick == <<>>

\* the fields the Octree constructor sets besides root (121-131): this.bodies
\* is the list Octree.update filters, hasMoved the set of the bodies whose
\* hasMoved flag is set (a property of the body, unset on a new body), calls
\* the number of update() calls since the last one that updated, removes
\* the number of root.remove(body) calls made.  There is no Octree object
\* around an OctreeNode.js root.  gravityConstant is the field the force
\* walk multiplies by (236, 249); no line assigns it after the constructor,
\* so it stays GravityConstant, the value the force operators are written
\* with.
UpdateThreshold == 10

NoOctree == <<>>

Octree_new(i, gravityConstant) ==
    IF i = "octree.js"
    THEN [gravityConstant |-> gravityConstant,
          bodies |-> <<>>,
          updateThreshold |-> UpdateThreshold,
          framesSinceLastUpdate |-> 0,
          hasMoved |-> {},
          calls |-> 0,
          removes |-> 0]
    ELSE NoOctree

NewRoot(i) ==
    LET halfWorldSize == Rat(WorldSize, 2)
    IN  IF i = "octree.js"
        THEN OctNode_new(ZeroVec, halfWorldSize)
        ELSE OctreeNode_new(ZeroVec,
                            Vec3(halfWorldSize, halfWorldSize, halfWorldSize))

Init ==
    /\ impl \in {"OctreeNode.js", "octree.js"}
    /\ bodies \in (IF impl = "octree.js" THEN BucketedLists ELSE StrictLists)
    /\ root = NewRoot(impl)
    /\ inserted = 0
    /\ status = "ok"
    /\ walk = NoWalk
    /\ prevBuild = <<>>
    /\ tick = NoTick
    /\ oct = Octree_new(impl, GravityConstant)

\* every body of the simulation has been inserted since the last clear
Built == status = "ok" /\ inserted = Len(bodies)

\* octree.clear() / root.clear(), the first statement of Simulation.update.
\* prevBuild keeps the tree a complete build had when it is cleared.
Clear ==
    /\ root' = (IF impl = "octree.js" THEN Octree_clear(root)
                ELSE OctreeNode_clear(root))
    /\ inserted' = 0
    /\ status' = "ok"
    /\ walk' = NoWalk
    /\ prevBuild' = (IF Built THEN <<root>> ELSE <<>>)
    /\ UNCHANGED <<impl, bodies, tick, oct>>

\* octree.insert(body) for the next body of this.bodies.forEach; a RangeError
\* ends the loop
Insert ==
    /\ status = "ok"
    /\ inserted < Len(bodies)
    /\ LET done(r) == /\ root' = r.node
                      /\ status' = (IF r.thrown THEN "RangeError" ELSE "ok")
       IN  done(IF impl = "octree.js"
                THEN OctNode_insert(root, inserted + 1, 1)
                ELSE OctreeNode_insert(root, inserted + 1, 1))
    /\ inserted' = inserted + 1
    /\ walk' = NoWalk
    /\ UNCHANGED <<impl, bodies, prevBuild, tick, oct>>

\* const gravityForce = octree.calculateGravity(body, theta) (for
\* OctreeNode.js: root.calculateForcesOnBody(body, theta, force, G) on a zero
\* force), called by the simulation once its bodies are inserted, or on the
\* empty tree.  walk is the force returned, with the record of the walk,
\* until the caller has used it.
CalculateGravity(b, theta) ==
    /\ status = "ok"
    /\ inserted = Len(bodies) \/ inserted = 0
    /\ walk = NoWalk
    /\ LET returned(r) == walk' = [body |-> b, theta |-> theta,
                                   force |-> r.force, log |-> r.log]
       IN  returned(IF impl = "octree.js"
                    THEN Octree_calculateGravity(root, b, theta)
                    ELSE OctreeNode_calculateForces(root, b, theta))
    /\ root' = (IF impl = "octree.js" THEN Octree_rootAfterGravity(root, b)
                ELSE OctreeNode_rootAfterForces(root, b))
    /\ UNCHANGED <<impl, bodies, inserted, status, prevBuild, tick, oct>>

\* body.applyForce(gravityForce, body.position): the caller hands the force
\* to the physics body and drops it
ApplyForce ==
    /\ walk # NoWalk
    /\ walk' = NoWalk
    /\ UNCHANGED <<impl, bodies, root, inserted, status, prevBuild, tick, oct>>

Next ==
    \/ Clear
    \/ Insert
    \/ \E b \in 1..Len(bodies), theta \in Thetas : CalculateGravity(b, theta)
    \/ ApplyForce

Spec == Init /\ [][Next]_vars

(***************************************************************************)
(* src/src/sim.js : Simulation.update(deltaTime, enableColorMapping),      *)
(* followed statement by statement, and Simulation.restart().  script.js   *)
(* calls update from its animation loop (one call per frame, never two at  *)
(* once) and restart from the handlers of its controls.  Simulation runs   *)
(* octree.js.  tick is the position of the running update:                 *)
(*   pc        the statement update is at ("idle": no update is running),  *)
(*   i         the index of the loop it is in,                             *)
(*   color     enableColorMapping,                                         *)
(*   animating the animation loop is alive (an update that throws ends it),*)
(*   worldSize simulation.worldSize,                                       *)
(*   builtAt   the positions the bodies had when they were inserted,       *)
(*   count     what the running update, or the last one, has done (reset   *)
(*             by the other handlers),                                     *)
(*   gravityConstant  simulation.gravityConstant.                          *)
(***************************************************************************)
\* the mass of a heavy crystal (addCrystal: density * volume), in the unit in
\* which the lightest has mass 1
HeavyMass == 1001

\* crystals of the constructor: inside the cube of side worldSize / 2
Crystals == { Body(-3, -3, -3, 1), Body(4, 0, 0, HeavyMass) }

\* a body importCrystals adds with the mass its file gives: here 0
Imported == Body(4, 0, 0, 0)

\* this.bodies after the constructor: addCrystals(sphereCount, 2000)
TickLists == SeqsUpTo(Crystals, MaxTickBodies)

\* the bodies of the files importCrystals reads: none, the body of mass 0, or
\* that body and a crystal
ImportLists == { <<>>, <<Imported>>, <<Imported, Body(-3, -3, -3, 1)>> }

\* where world.step may leave a body: inside the root cube, on its face, and
\* next to it outside the cube
TickPositions ==
    { Vec3(R(4), R(0), R(0)), Vec3(R(8), R(0), R(0)), Outside.position }

\* world.step(deltaTime): the bodies are asleep and stay, or the first or the
\* last body of the list has moved
Moved(bs) ==
    {bs} \cup {[bs EXCEPT ![k].position = p] :
                  k \in {1, Len(bs)} \cap DOMAIN bs, p \in TickPositions}

\* the values the World Size control sets
WorldSizes == { WorldSize, 4 * WorldSize }

\* generateRandomPosition(worldSize / 2): each coordinate within worldSize / 4
\* of the origin
InVolume(position, worldSize) ==
    \A a \in 1..3 : /\ RLe(Rat(-worldSize, 4), position[a])
                    /\ RLe(position[a], Rat(worldSize, 4))

\* the lists of crystals restart may add: this.sphereCount || 1500 is never 0
RestartLists(worldSize) ==
    SeqsUpTo({k \in Crystals \cup {Outside} :
                 InVolume(k.position, worldSize)},
             MaxTickBodies) \ {<<>>}

\* the values the owner gives Simulation.gravityConstant: the constructor's
\* and another
GravityConstants == {GravityConstant, 2 * GravityConstant}

NoCount == [clears |-> 0, inserts |-> 0, forces |-> 0, applies |-> 0,
            steps |-> 0]

\* update with world.step ahead of the loop that computes and applies forces
RECURSIVE Simulation_update_from_stepFirst(_, _, _, _)
Simulation_update_from_stepFirst(pc, i, n, color) ==
    IF pc = "insert"
    THEN IF i <= n THEN [pc |-> "insert", i |-> i]
         ELSE [pc |-> "step", i |-> 0]
    ELSE IF pc = "force"
    THEN IF i <= n THEN [pc |-> "force", i |-> i]
         ELSE [pc |-> "step", i |-> 0]
    ELSE IF pc = "maxAcceleration"
    THEN IF i <= n THEN [pc |-> "maxAcceleration", i |-> i]
         ELSE Simulation_update_from_stepFirst("color", 1, n, color)
    ELSE IF i <= n /\ color THEN [pc |-> "color", i |-> i]
         ELSE [pc |-> "idle", i |-> 0]

\* the statement update runs when it comes to index i of the loop pc, n being
\* this.bodies.length: the insert loop (313-315), the force loop (318-321),
\* world.step (323), the loop of calculateMaxAcceleration (326), the mesh
\* loop, which asks for an acceleration when enableColorMapping is set
\* (329-349); after it update returns
RECURSIVE Simulation_update_from(_, _, _, _)
Simulation_update_from(pc, i, n, color) ==
    IF pc = "insert"
    THEN IF i <= n THEN [pc |-> "insert", i |-> i]
         ELSE Simulation_update_from("force", 1, n, color)
    ELSE IF pc = "force"
    THEN IF i <= n THEN [pc |-> "force", i |-> i]
         ELSE [pc |-> "step", i |-> 0]
    ELSE IF pc = "maxAcceleration"
    THEN IF i <= n THEN [pc |-> "maxAcceleration", i |-> i]
         ELSE Simulation_update_from("color", 1, n, color)
    ELSE IF i <= n /\ color THEN [pc |-> "color", i |-> i]
         ELSE [pc |-> "idle", i |-> 0]

TickInit ==
    /\ impl = "octree.js"
    /\ bodies \in TickLists
    /\ root = NewRoot(impl)
    /\ inserted = 0
    /\ status = "ok"
    /\ walk = NoWalk
    /\ prevBuild = <<>>
    /\ tick = [pc |-> "idle", i |-> 0, color |-> FALSE, animating |-> TRUE,
               worldSize |-> WorldSize, builtAt |-> <<>>, count |-> NoCount,
               gravityConstant |-> GravityConstant]
    /\ oct = Octree_new(impl, GravityConstant)

\* update is called: this.octree.clear() (312)
TickClear(enableColorMapping) ==
    /\ tick.pc = "idle"
    /\ tick.animating
    /\ root' = Octree_clear(root)
    /\ inserted' = 0
    /\ status' = "ok"
    /\ walk' = NoWalk
    /\ LET at(r) ==
               tick' = [tick EXCEPT !.pc = r.pc, !.i = r.i,
                                    !.color = enableColorMapping,
                                    !.builtAt = <<>>,
                                    !.count = [NoCount EXCEPT !.clears = 1]]
       IN  at(Simulation_update_from("insert", 1, Len(bodies),
                                     enableColorMapping))
    /\ UNCHANGED <<impl, bodies, prevBuild, oct>>

\* this.octree.insert(body) (314); a RangeError leaves update and the
\* animation loop
TickInsert ==
    /\ tick.pc = "insert"
    /\ LET at(r, next) ==
               /\ root' = r.node
               /\ status' = (IF r.thrown THEN "RangeError" ELSE "ok")
               /\ tick' = [tick EXCEPT
                              !.pc = IF r.thrown THEN "idle" ELSE next.pc,
                              !.i = IF r.thrown THEN 0 ELSE next.i,
                              !.animating = ~r.thrown,
                              !.builtAt = Append(@, Position(tick.i)),
                              !.count.inserts = @ + 1]
       IN  at(OctNode_insert(root, tick.i, 1),
              Simulation_update_from("insert", tick.i + 1, Len(bodies),
                                     tick.color))
    /\ inserted' = tick.i
    /\ walk' = NoWalk
    /\ UNCHANGED <<impl, bodies, prevBuild, oct>>

\* const gravityForce = this.octree.calculateGravity(body) (319): theta is
\* the default, 0.5
TickCalculateGravity ==
    /\ tick.pc = "force"
    /\ LET returned(r) == walk' = [body |-> tick.i, theta |-> Half,
                                   force |-> r.force, log |-> r.log]
       IN  returned(Octree_calculateGravity(root, tick.i, Half))
    /\ root' = Octree_rootAfterGravity(root, tick.i)
    /\ tick' = [tick EXCEPT !.pc = "apply", !.count.forces = @ + 1]
    /\ UNCHANGED <<impl, bodies, inserted, status, prevBuild, oct>>

\* body.applyForce(gravityForce, body.position) (320)
TickApplyForce ==
    /\ tick.pc = "apply"
    /\ walk' = NoWalk
    /\ LET at(r) == tick' = [tick EXCEPT !.pc = r.pc, !.i = r.i,
                                         !.count.applies = @ + 1]
       IN  at(Simulation_update_from("force", tick.i + 1, Len(bodies),
                                     tick.color))
    /\ UNCHANGED <<impl, bodies, root, inserted, status, prevBuild, oct>>

\* this.world.step(deltaTime) (323)
TickStep ==
    /\ tick.pc = "step"
    /\ bodies' \in Moved(bodies)
    /\ LET at(r) == tick' = [tick EXCEPT !.pc = r.pc, !.i = r.i,
                                         !.count.steps = @ + 1]
       IN  at(Simulation_update_from("maxAcceleration", 1, Len(bodies),
                                     tick.color))
    /\ UNCHANGED <<impl, root, inserted, status, walk, prevBuild, oct>>

\* calculateAcceleration(body) (200-208): this.octree.calculateGravity(body),
\* called by calculateMaxAcceleration (215) and by the mesh loop (339)
TickCalculateAcceleration ==
    /\ tick.pc \in {"maxAcceleration", "color"}
    /\ LET returned(r) == walk' = [body |-> tick.i, theta |-> Half,
                                   force |-> r.force, log |-> r.log]
       IN  returned(Octree_calculateGravity(root, tick.i, Half))
    /\ tick' = [tick EXCEPT
                   !.pc = IF tick.pc = "color" THEN "paint" ELSE "max"]
    /\ root' = Octree_rootAfterGravity(root, tick.i)
    /\ UNCHANGED <<impl, bodies, inserted, status, prevBuild, oct>>

\* the caller takes the length of the acceleration (Math.max, 221, or
\* updateColor, 344) and drops it
TickUseAcceleration ==
    /\ tick.pc \in {"max", "paint"}
    /\ walk' = NoWalk
    /\ LET at(r) == tick' = [tick EXCEPT !.pc = r.pc, !.i = r.i]
       IN  at(Simulation_update_from(
                  IF tick.pc = "paint" THEN "color" ELSE "maxAcceleration",
                  tick.i + 1, Len(bodies), tick.color))
    /\ UNCHANGED <<impl, bodies, root, inserted, status, prevBuild, oct>>

\* a control of script.js: simulation.worldSize = value (the World Size
\* control only), then simulation.restart() as far as its insert loop: new
\* crystals (90) and octree.clear() (95).  The octree keeps the root cube of
\* its constructor.
Restart(worldSize) ==
    /\ tick.pc = "idle"
    /\ bodies' \in RestartLists(worldSize)
    /\ root' = Octree_clear(root)
    /\ inserted' = 0
    /\ status' = "ok"
    /\ walk' = NoWalk
    /\ tick' = [tick EXCEPT !.pc = "restart",
                            !.i = 1,
                            !.worldSize = worldSize,
                            !.builtAt = <<>>,
                            !.count = NoCount]
    /\ UNCHANGED <<impl, prevBuild, oct>>

\* restart: this.octree.insert({mass: body.mass, position: body.position})
\* (96-101); a RangeError leaves restart
RestartInsert ==
    /\ tick.pc = "restart"
    /\ LET at(r, last) ==
               /\ root' = r.node
               /\ status' = (IF r.thrown THEN "RangeError" ELSE "ok")
               /\ tick' = [tick EXCEPT
                              !.pc = IF last THEN "idle" ELSE "restart",
                              !.i = IF last THEN 0 ELSE tick.i + 1,
                              !.builtAt = Append(@, Position(tick.i))]
           of(r) == at(r, r.thrown \/ tick.i = Len(bodies))
       IN  of(OctNode_insert(root, tick.i, 1))
    /\ inserted' = tick.i
    /\ walk' = NoWalk
    /\ UNCHANGED <<impl, bodies, prevBuild, oct>>

\* importCrystals(data, simulation) of script.js: clearScene() empties
\* this.bodies, addBody pushes a body for each item.  The octree is not
\* touched: until the next clear it holds the bodies that were removed.
Import(items) ==
    /\ tick.pc = "idle"
    /\ bodies' = items
    /\ tick' = [tick EXCEPT !.builtAt = <<>>, !.count = NoCount]
    /\ UNCHANGED <<impl, root, inserted, status, walk, prevBuild, oct>>

\* the 'Gravity Constant' control of script.js (500-503), between two frames:
\* simulation.gravityConstant = value * 10e-6
SetGravityConstant(value) ==
    /\ tick.pc = "idle"
    /\ value # tick.gravityConstant
    /\ tick' = [tick EXCEPT !.gravityConstant = value]
    /\ UNCHANGED <<impl, bodies, root, inserted, status, walk, prevBuild, oct>>

TickNext ==
    \/ \E enableColorMapping \in BOOLEAN : TickClear(enableColorMapping)
    \/ TickInsert
    \/ TickCalculateGravity
    \/ TickApplyForce
    \/ TickStep
    \/ TickCalculateAcceleration
    \/ TickUseAcceleration
    \/ \E worldSize \in WorldSizes : Restart(worldSize)
    \/ RestartInsert
    \/ \E items \in ImportLists : Import(items)
    \/ \E value \in GravityConstants : SetGravityConstant(value)

TickSpec == TickInit /\ [][TickNext]_vars

(***************************************************************************)
(* src/src/octree.js : Octree.update() and what it calls (remove, merge,   *)
(* _pruneEmptyNodes, _updateNodeStructure).  Nothing in the repository     *)
(* calls update: UpdateSpec is the Octree used through its methods by an   *)
(* owner that inserts its bodies in order, flags moved bodies, takes out   *)
(* the body it inserted last, calls update() once a frame and clears.      *)
(***************************************************************************)
MIN_BODIES_PER_NODE == 5

\* no body: the default argument of updateMassDistribution
NoBody == 0

OctNode_isEmpty(n) == n.isLeaf /\ Len(n.bodies) = 0

\* updateMassDistribution(body = null): without a body nothing is assigned
OctNode_updateMassDistributionOf(n, b) ==
    IF b # NoBody THEN OctNode_updateMassDistribution(n, b) ELSE n

RECURSIVE OctNode_remove(_, _)
OctNode_remove(n, b) ==
    LET splice(index) ==
            OctNode_updateMassDistributionOf(
                [n EXCEPT !.bodies = SubSeq(@, 1, index - 1)
                                     \o SubSeq(@, index + 1, Len(@))],
                NoBody)
        indexOf(found) ==
            IF found # {}
            THEN splice(CHOOSE i \in found : \A j \in found : i <= j)
            ELSE IF ~n.isLeaf
            THEN [n EXCEPT !.children =
                     [k \in 1..Len(@) |-> OctNode_remove(@[k], b)]]
            ELSE n
    IN  indexOf({i \in 1..Len(n.bodies) : n.bodies[i] = b})

\* [].concat(...this.children.map(child => child.bodies)), first k children
RECURSIVE OctNode_childBodies(_, _)
OctNode_childBodies(n, k) ==
    IF k = 0 THEN <<>>
    ELSE OctNode_childBodies(n, k - 1) \o n.children[k].bodies

OctNode_merge(n) ==
    LET merged(totalBodies) ==
            IF Len(totalBodies) < MIN_BODIES_PER_NODE
            THEN [n EXCEPT !.bodies = totalBodies,
                           !.children = <<>>,
                           !.isLeaf = TRUE]
            ELSE n
    IN  IF ~n.isLeaf /\ \A k \in 1..Len(n.children) : n.children[k].isLeaf
        THEN merged(OctNode_childBodies(n, Len(n.children)))
        ELSE n

RECURSIVE OctNode_containsMovedBodies(_, _)
OctNode_containsMovedBodies(n, hasMoved) ==
    IF n.isLeaf
    THEN \E i \in 1..Len(n.bodies) : n.bodies[i] \in hasMoved
    ELSE \E k \in 1..Len(n.children) :
            OctNode_containsMovedBodies(n.children[k], hasMoved)

\* shouldUpdate() that looks at the frame counter only
Octree_shouldUpdate_framesOnly(r, o) ==
    o.framesSinceLastUpdate >= o.updateThreshold

Octree_shouldUpdate(r, o) ==
    \/ o.framesSinceLastUpdate >= o.updateThreshold
    \/ OctNode_containsMovedBodies(r, o.hasMoved)

RECURSIVE Octree_pruneEmptyNodes(_)
Octree_pruneEmptyNodes(node) ==
    LET kept(nonEmptyChildren) ==
            [node EXCEPT !.children = nonEmptyChildren,
                         !.isLeaf = (Len(nonEmptyChildren) = 0)]
    IN  IF ~node.isLeaf
        THEN kept(SelectSeq([k \in 1..Len(node.children) |->
                                Octree_pruneEmptyNodes(node.children[k])],
                            LAMBDA child : ~OctNode_isEmpty(child)))
        ELSE node

\* movedBodies.forEach(body => { remove; insert; hasMoved = false }), up to
\* and with the k-th moved body, as [node, thrown, hasMoved]
RECURSIVE Octree_reinsertMoved(_, _, _, _)
Octree_reinsertMoved(r, hasMoved, movedBodies, k) ==
    LET put(body, before, ins) ==
            [node |-> ins.node, thrown |-> ins.thrown,
             hasMoved |-> IF ins.thrown THEN before.hasMoved
                          ELSE before.hasMoved \ {body}]
        next(body, before) ==
            IF before.thrown THEN before
            ELSE put(body, before,
                     OctNode_insert(OctNode_remove(before.node, body), body, 1))
    IN  IF k = 0 THEN [node |-> r, thrown |-> FALSE, hasMoved |-> hasMoved]
        ELSE next(movedBodies[k],
                  Octree_reinsertMoved(r, hasMoved, movedBodies, k - 1))

RECURSIVE Octree_updateNodeStructure(_, _)
RECURSIVE Octree_updateChildren(_, _, _)

\* node.children.forEach(child => this._updateNodeStructure(child)), up to
\* and with the k-th child
Octree_updateChildren(node, k, depth) ==
    LET put(m, r) == [node |-> [m EXCEPT !.children[k] = r.node],
                      thrown |-> r.thrown]
        next(before) ==
            IF before.thrown THEN before
            ELSE put(before.node,
                     Octree_updateNodeStructure(before.node.children[k],
                                                depth + 1))
    IN  IF k = 0 THEN [node |-> node, thrown |-> FALSE]
        ELSE next(Octree_updateChildren(node, k - 1, depth))

Octree_updateNodeStructure(node, depth) ==
    LET children(merged) ==
            Octree_updateChildren(merged, Len(merged.children), depth)
    IN  IF node.isLeaf
        THEN IF Len(node.bodies) > MAX_BODIES_PER_NODE
             THEN OctNode_subdivide(node, depth)
             ELSE [node |-> node, thrown |-> FALSE]
        ELSE children(OctNode_merge(node))

\* update(), as [root, oct, thrown]
Octree_update(r, o) ==
    LET done(hasMoved, m) ==
            [root |-> m.node,
             oct |-> [o EXCEPT !.framesSinceLastUpdate = 0,
                               !.hasMoved = hasMoved,
                               !.calls = 0],
             thrown |-> m.thrown]
        structure(m) ==
            done(m.hasMoved,
                 IF m.thrown THEN m ELSE Octree_updateNodeStructure(m.node, 1))
        moved(movedBodies) ==
            structure(Octree_reinsertMoved(Octree_pruneEmptyNodes(r),
                                           o.hasMoved, movedBodies,
                                           Len(movedBodies)))
    IN  IF Octree_shouldUpdate(r, o)
        THEN moved(SelectSeq(o.bodies, LAMBDA body : body \in o.hasMoved))
        ELSE [root |-> r,
              oct |-> [o EXCEPT !.framesSinceLastUpdate = @ + 1,
                                !.calls = @ + 1],
              thrown |-> FALSE]

\* the owner's bodies: a cluster spread over three leaves of the octant
\* x, y, z < 0, one more than a leaf holds or a single body, then possibly
\* a body in the opposite octant; or a list most of which the tree drops
Opposite == Body(4, 4, 4, 2)

\* as many bodies as make a leaf subdivide, all but MIN_BODIES_PER_NODE - 1
\* of them outside the root cube
MostlyOutside ==
    [i \in 1..(MaxCluster + 2 - MIN_BODIES_PER_NODE) |-> Outside]
    \o Cluster("spread", MIN_BODIES_PER_NODE - 1)

UpdateLists ==
    { Cluster("spread", c) \o post :
        c \in {1, MaxCluster + 1}, post \in {<<>>, <<Opposite>>} }
    \cup {MostlyOutside}

\* the body the owner may flag: the first
Flagged(bs) == {1}

UpdateInit ==
    /\ impl = "octree.js"
    /\ bodies \in UpdateLists
    /\ root = NewRoot(impl)
    /\ inserted = 0
    /\ status = "ok"
    /\ walk = NoWalk
    /\ prevBuild = <<>>
    /\ tick = NoTick
    /\ oct = Octree_new(impl, GravityConstant)

\* body.hasMoved = true, by the owner of the body
SetHasMoved(b) ==
    /\ b \notin oct.hasMoved
    /\ oct' = [oct EXCEPT !.hasMoved = @ \cup {b}]
    /\ UNCHANGED <<impl, bodies, root, inserted, status, walk, prevBuild, tick>>

\* octree.root.remove(body) for the body inserted last
Remove ==
    /\ status = "ok"
    /\ inserted > 0
    /\ oct.removes < MaxRemoves
    /\ root' = OctNode_remove(root, inserted)
    /\ inserted' = inserted - 1
    /\ oct' = [oct EXCEPT !.removes = @ + 1]
    /\ walk' = NoWalk
    /\ UNCHANGED <<impl, bodies, status, prevBuild, tick>>

\* octree.update(), once a frame
OctreeUpdate ==
    /\ status = "ok"
    /\ LET done(r) == /\ root' = r.root
                      /\ oct' = r.oct
                      /\ status' = (IF r.thrown THEN "RangeError" ELSE "ok")
       IN  done(Octree_update(root, oct))
    /\ walk' = NoWalk
    /\ UNCHANGED <<impl, bodies, inserted, prevBuild, tick>>

UpdateNext ==
    \/ Clear
    \/ Insert
    \/ \E b \in Flagged(bodies) : SetHasMoved(b)
    \/ Remove
    \/ OctreeUpdate

UpdateSpec == UpdateInit /\ [][UpdateNext]_vars

(***************************************************************************)
(* Properties.                                                             *)
(***************************************************************************)
IsInternal(n) ==
    IF impl = "octree.js" THEN ~n.isLeaf ELSE ~OctreeNode_isLeaf(n)

CenterOfMass(n) == IF impl = "octree.js" THEN n.com ELSE n.centerOfMass

\* the sum of the masses of the bodies 1..k
RECURSIVE SumOfMasses(_)
SumOfMasses(k) == IF k = 0 THEN 0 ELSE SumOfMasses(k - 1) + Mass(k)

\* the sum of mass * position, on axis a, of the bodies 1..k
RECURSIVE WeightedSum(_, _)
WeightedSum(k, a) ==
    IF k = 0 THEN R(0)
    ELSE RAdd(WeightedSum(k - 1, a), RMul(Position(k)[a], R(Mass(k))))

\* the nodes an old and a new tree hold at the same place, as <<old, new>>
RECURSIVE OctreeNode_pairs(_, _)
OctreeNode_pairs(o, n) ==
    {<<o, n>>}
    \cup UNION {OctreeNode_pairs(o.children[i][1], n.children[i][1]) :
                   i \in {j \in 0..7 : o.children[j] # <<>>
                                       /\ n.children[j] # <<>>}}

RECURSIVE OctNode_pairs(_, _)
OctNode_pairs(o, n) ==
    {<<o, n>>}
    \cup UNION {OctNode_pairs(o.children[k], n.children[k]) :
                   k \in 1..Len(o.children)}

Pairs(o, n) ==
    IF impl = "octree.js" THEN OctNode_pairs(o, n) ELSE OctreeNode_pairs(o, n)

\* (oldCOM * oldMass + bodyPos * bodyMass) / (oldMass + bodyMass)
Incremental(oldCOM, oldMass, b) ==
    LET axis(a) == RDiv(RAdd(RMul(oldCOM[a], R(oldMass)),
                             RMul(Position(b)[a], R(Mass(b)))),
                        R(oldMass + Mass(b)))
    IN  <<axis(1), axis(2), axis(3)>>

\* C1: once a build is complete (a clear, then the insert of every body of
\* the simulation, whatever their order), the mass of the root is the sum of
\* the masses of the bodies.
C1_RootMassIsSum == Built => root.mass = SumOfMasses(Len(bodies))

C1_Witness ==
    /\ Built
    /\ Len(bodies) >= 3
    /\ IsInternal(root)
    /\ root.mass = SumOfMasses(Len(bodies))

\* an insert that returned: what it did to a node that was in the tree
C2_InsertStep ==
    (status' = "ok" /\ inserted' = inserted + 1) =>
        \A pr \in Pairs(root, root') :
            pr[2].mass # pr[1].mass =>
                /\ pr[2].mass = pr[1].mass + Mass(inserted')
                /\ CenterOfMass(pr[2]) =
                       Incremental(CenterOfMass(pr[1]), pr[1].mass, inserted')

\* C2: once a build of positive total mass is complete, root.mass times the
\* root's centre of mass is, on each axis, the sum of mass times position of
\* the bodies, whatever their order; and every insert that returns has set,
\* on each node of the tree it went through, the centre of mass to
\* (oldCOM * oldMass + bodyPos * bodyMass) / (oldMass + bodyMass).
C2_CentreOfMassIsWeightedAverage ==
    /\ [](Built /\ root.mass > 0 =>
            \A a \in 1..3 :
                RMul(CenterOfMass(root)[a], R(root.mass))
                    = WeightedSum(Len(bodies), a))
    /\ [][C2_InsertStep]_vars

C2_Witness ==
    /\ Built
    /\ Len(bodies) >= 3
    /\ IsInternal(root)
    /\ \E i, j \in 1..Len(bodies) :
           Mass(i) # Mass(j) /\ Position(i) # Position(j)
    /\ \A a \in 1..3 :
           RMul(CenterOfMass(root)[a], R(root.mass))
               = WeightedSum(Len(bodies), a)

\* the nodes of a tree
RECURSIVE OctreeNode_nodes(_)
OctreeNode_nodes(n) ==
    {n} \cup UNION {OctreeNode_nodes(n.children[i][1]) :
                       i \in {j \in 0..7 : n.children[j] # <<>>}}

RECURSIVE OctNode_nodes(_)
OctNode_nodes(n) ==
    {n} \cup UNION {OctNode_nodes(n.children[k]) : k \in 1..Len(n.children)}

Nodes(r) == IF impl = "octree.js" THEN OctNode_nodes(r) ELSE OctreeNode_nodes(r)

BodiesIn(n) ==
    IF impl = "octree.js" THEN OctNode_bodiesIn(n) ELSE OctreeNode_bodiesIn(n)

\* the sum of the masses of a set of bodies
RECURSIVE MassOf(_)
MassOf(S) ==
    IF S = {} THEN 0
    ELSE LET b == CHOOSE x \in S : TRUE
         IN  Mass(b) + MassOf(S \ {b})

\* C3: in every state that clears and inserts reach, whatever the positions
\* of the bodies, the mass of every node of the tree is the sum of the
\* masses of the bodies held in the leaves of its subtree.
C3_NodeMassIsSubtreeSum ==
    status = "ok" => \A n \in Nodes(root) : n.mass = MassOf(BodiesIn(n))

\* C4: the force computed for a body of the tree holds nothing of the body's
\* own mass, for every theta in (0, 1.5]: its own leaf adds no term for it,
\* and no node whose subtree holds it is taken as one point mass.
C4_NoSelfContribution ==
    \A i \in DOMAIN walk.log :
        /\ walk.log[i].act = "point" => walk.body \notin walk.log[i].holds
        /\ walk.body \notin walk.log[i].from

\* C5: the force computed for a body against the tree that holds only that
\* body is the zero vector, and so is the force against a tree whose root
\* has mass 0.
C5_ZeroForceAlone ==
    walk # NoWalk =>
        /\ (Built /\ Len(bodies) = 1 /\ walk.body = 1) => walk.force = ZeroForce
        /\ root.mass = 0 => walk.force = ZeroForce

C5_Witness ==
    /\ walk # NoWalk
    /\ impl = "octree.js"
    /\ Built /\ Len(bodies) = 1 /\ walk.body = 1
    /\ root.mass > 0
    /\ walk.force = ZeroForce

\* the acceptance criterion (size / distance) < theta, the size of a node
\* being its half extent and the distance that of its centre of mass
Accepted(extent, d2, theta) ==
    /\ d2 # R(0)
    /\ RLt(RMul(extent, extent), RMul(RMul(theta, theta), d2))

Extent(n) == IF impl = "octree.js" THEN n.halfSize ELSE n.halfDimension[1]

\* no internal node of the tree satisfies the criterion for body b
LeafExact(b, theta) ==
    \A n \in Nodes(root) :
        IsInternal(n) =>
            ~Accepted(Extent(n),
                      distanceSquared(CenterOfMass(n), Position(b)), theta)

DistinctPositions ==
    \A i, j \in 1..Len(bodies) : i # j => Position(i) # Position(j)

InRootBounds ==
    \A i \in 1..Len(bodies) : \A a \in 1..3 :
        /\ RLe(Rat(-WorldSize, 2), Position(i)[a])
        /\ RLe(Position(i)[a], Rat(WorldSize, 2))

\* the sum over every other body j of G * m_b * m_j / d^2 toward j
DirectSum(b) ==
    ForceSum([j \in 1..Len(bodies) |->
                 IF j = b THEN ZeroForce
                 ELSE UnitTimes(vsub(Position(j), Position(b)),
                                RDiv(R(GravityConstant * Mass(b) * Mass(j)),
                                     distanceSquared(Position(j),
                                                     Position(b))))],
             Len(bodies))

\* C6: with bodies at pairwise distinct positions inside the root bounds and
\* a theta for which no internal node satisfies the acceptance criterion,
\* the force the walk computes for a body is the direct pairwise sum over
\* the other bodies of G * m_i * m_j / d^2 toward the other body.
C6_WalkIsDirectSum ==
    (/\ walk # NoWalk
     /\ Built
     /\ DistinctPositions
     /\ InRootBounds
     /\ LeafExact(walk.body, walk.theta))
        => walk.force = DirectSum(walk.body)

\* the force a walk of the tree computes for body b
WalkForce(b, theta) ==
    IF impl = "octree.js" THEN Octree_calculateGravity(root, b, theta).force
    ELSE OctreeNode_calculateForces(root, b, theta).force

VisitedBelow(i) ==
    \E j \in DOMAIN walk.log :
        /\ Len(walk.log[j].path) > Len(walk.log[i].path)
        /\ SubSeq(walk.log[j].path, 1, Len(walk.log[i].path))
               = walk.log[i].path

\* C8: an internal node of nonzero mass with (size / distance) < theta is
\* taken as one point mass and none of its descendants is visited; an
\* internal node that fails the test is recursed into.
C8_AcceptedNodeIsOnePoint ==
    \A i \in DOMAIN walk.log :
        (~walk.log[i].isLeaf /\ walk.log[i].mass # 0) =>
            IF Accepted(walk.log[i].extent, walk.log[i].d2, walk.theta)
            THEN walk.log[i].act = "point" /\ ~VisitedBelow(i)
            ELSE walk.log[i].act = "recurse"

\* C9: every insert returns, whatever the tree and the body, bodies on one
\* point included: the depth of the subdivision is capped.
C9_InsertReturns == status # "RangeError"

\* mass and centre of mass of every node of a tree
RECURSIVE OctreeNode_aggregates(_)
OctreeNode_aggregates(n) ==
    [mass |-> n.mass,
     centerOfMass |-> n.centerOfMass,
     children |-> [i \in 0..7 |->
                      IF n.children[i] = <<>> THEN <<>>
                      ELSE <<OctreeNode_aggregates(n.children[i][1])>>]]

RECURSIVE OctNode_aggregates(_)
OctNode_aggregates(n) ==
    [mass |-> n.mass,
     com |-> n.com,
     children |-> [k \in 1..Len(n.children) |->
                      OctNode_aggregates(n.children[k])]]

Aggregates(r) ==
    IF impl = "octree.js" THEN OctNode_aggregates(r)
    ELSE OctreeNode_aggregates(r)

\* C10: two complete builds in a row of the same bodies in the same order
\* give every node of the tree the same mass and the same centre of mass.
C10_RebuildIsIdempotent ==
    (Built /\ prevBuild # <<>>) => Aggregates(root) = Aggregates(prevBuild[1])

C10_Witness ==
    /\ Built
    /\ prevBuild # <<>>
    /\ Len(bodies) >= 3
    /\ IsInternal(root)
    /\ Aggregates(root) = Aggregates(prevBuild[1])

\* a leaf with no occupant, mass 0 and a zeroed centre of mass
EmptyLeaf(n) ==
    IF impl = "octree.js"
    THEN /\ n.isLeaf
         /\ n.children = <<>>
         /\ n.bodies = <<>>
         /\ n.mass = 0
         /\ n.com = ZeroVec
    ELSE /\ OctreeNode_isLeaf(n)
         /\ n.body = 0
         /\ n.mass = 0
         /\ n.centerOfMass = ZeroVec

\* C11: a clear, from any state (a new tree, an empty tree, a built tree, a
\* tree left half built by an error), leaves the root an empty leaf: no
\* children, no occupant, mass 0, centre of mass (0, 0, 0), and so no node
\* of the tree before the clear under it.
C11_ClearGivesEmptyLeaf ==
    [][Clear => (EmptyLeaf(root') /\ Nodes(root') = {root'})]_vars

C11_Witness ==
    /\ inserted = 0
    /\ prevBuild # <<>>
    /\ IsInternal(prevBuild[1])
    /\ prevBuild[1].mass > 0
    /\ EmptyLeaf(root)

\* the tree holds every body of the simulation, each inserted at the
\* position it has now
BuiltFromCurrentPositions ==
    /\ status = "ok"
    /\ inserted = Len(bodies)
    /\ tick.builtAt = [k \in 1..Len(bodies) |-> Position(k)]

\* C12: every force query is answered from a tree built from the bodies'
\* current positions: between world.step moving a body and the next clear
\* and insert of every body, calculateGravity is not called.
C12_QueriesSeeFreshTree == walk # NoWalk => BuiltFromCurrentPositions

\* what one statement of update may do, given what the update has done
C13_UpdateStep ==
    /\ tick'.count.inserts > tick.count.inserts =>
           /\ tick.count.clears = 1
           /\ tick.count.forces = 0
           /\ tick.count.steps = 0
    /\ tick'.count.forces > tick.count.forces =>
           /\ tick.count.inserts = Len(bodies)
           /\ tick.count.applies = tick.count.forces
           /\ tick.count.steps = 0
    /\ tick'.count.applies > tick.count.applies =>
           /\ tick.count.forces = tick.count.applies + 1
           /\ tick.count.steps = 0
    /\ tick'.count.steps > tick.count.steps =>
           /\ tick.count.inserts = Len(bodies)
           /\ tick.count.forces = Len(bodies)
           /\ tick.count.applies = Len(bodies)
           /\ tick.count.steps = 0

\* C13: in each call of Simulation.update the octree is cleared, then every
\* body is inserted, then a force is computed and applied for every body,
\* then the physics world is stepped, in this order: no force is computed
\* before the last insert of the update, no insert follows a force of the
\* same update, and the world is stepped once, after the last force is
\* applied.
C13_PhasesInOrder ==
    /\ [](/\ tick.count.inserts > 0 => tick.count.clears = 1
          /\ tick.count.inserts <= Len(bodies)
          /\ tick.count.forces > 0 =>
                 (status = "ok" /\ inserted = Len(bodies)
                  /\ tick.count.inserts = Len(bodies))
          /\ tick.count.applies <= tick.count.forces
          /\ tick.count.forces <= tick.count.applies + 1
          /\ tick.count.steps <= 1
          /\ tick.count.steps = 1 => tick.count.applies = Len(bodies))
    /\ [][C13_UpdateStep]_vars

C13_Witness ==
    /\ tick.count.steps = 1
    /\ Len(bodies) >= 2
    /\ tick.count.clears = 1
    /\ tick.count.inserts = Len(bodies)
    /\ tick.count.applies = Len(bodies)

\* a body of positive mass whose position has three finite coordinates
Valid(b) ==
    /\ Mass(b) > 0
    /\ \A a \in 1..3 : Position(b)[a][2] # 0

\* C14: the insert of an invalid body (mass 0 or less, or a position with a
\* NaN or infinite coordinate) skips the body: every node of the tree keeps
\* its mass, centre of mass, children and occupants.
C14_InvalidBodyIsSkipped ==
    [][(tick.pc = "insert" /\ ~Valid(tick.i)) => root' = root]_vars

\* C15: at every rebuild, in update and in restart (a changed world size
\* included), a body that has been inserted lies within the bounds of the
\* root, centre - half extent to centre + half extent on each axis: a body
\* outside them has been clamped, or the root has been expanded.
C15_InsertedBodyInRootBounds ==
    [][tick.pc \in {"insert", "restart"} =>
           OctNode_contains(root', bodies'[tick.i].position)]_vars

ForceCeiling == 1000000

\* G * m1 * m2 / d2, the magnitude of the term of one pairing
Magnitude(m1, m2, d2) == RDiv(R(GravityConstant * m1 * m2), d2)

\* C17: the magnitude of each term a walk adds to the force, for the target
\* with a node taken as one point mass or with a body of a leaf, is at most
\* the ceiling, however close the two are and however heavy.
C17_TermsBelowCeiling ==
    \A i \in DOMAIN walk.log :
        /\ walk.log[i].act = "point" =>
               RLe(Magnitude(Mass(walk.body), walk.log[i].mass, walk.log[i].d2),
                   R(ForceCeiling))
        /\ \A j \in walk.log[i].from :
               RLe(Magnitude(Mass(walk.body), Mass(j),
                             distanceSquared(Position(j), Position(walk.body))),
                   R(ForceCeiling))

\* C18: computing a force leaves the tree as it was: once calculateGravity
\* (calculateForcesOnBody) has returned, for any body and theta, every node
\* has the centre, half extent, mass, centre of mass, children and occupants
\* it had, and so the force computed for a body is the one the tree gives
\* whatever was computed before.
C18_WalkLeavesTreeUnchanged ==
    /\ [][(walk = NoWalk /\ walk' # NoWalk) => root' = root]_vars
    /\ [](walk # NoWalk /\ prevBuild # <<>> /\ Built =>
             Aggregates(root) = Aggregates(prevBuild[1]))

\* a walk that went below the root of a tree built for the second time
C18_Witness ==
    /\ walk # NoWalk
    /\ Built
    /\ prevBuild # <<>>
    /\ IsInternal(root)
    /\ Len(walk.log) > 1
    /\ walk.force # ZeroForce
    /\ Aggregates(root) = Aggregates(prevBuild[1])

\* C19: an update of a simulation without bodies clears the octree, inserts
\* nothing, computes no force, throws nothing, and leaves the root an empty
\* leaf of mass 0.
C19_EmptyTick ==
    (Len(bodies) = 0 /\ tick.count.clears = 1) =>
        /\ status = "ok"
        /\ tick.animating
        /\ walk = NoWalk
        /\ tick.count.inserts = 0
        /\ tick.count.forces = 0
        /\ tick.pc \in {"step", "idle"}
        /\ EmptyLeaf(root)
        /\ root.mass = 0

\* the update of a simulation without bodies has returned
C19_Witness ==
    /\ Len(bodies) = 0
    /\ tick.count.clears = 1
    /\ tick.count.steps = 1
    /\ tick.pc = "idle"
    /\ status = "ok"
    /\ walk = NoWalk
    /\ EmptyLeaf(root)

HasChildren(n) ==
    IF impl = "octree.js" THEN n.children # <<>> ELSE ~OctreeNode_isLeaf(n)

HasOccupant(n) == IF impl = "octree.js" THEN n.bodies # <<>> ELSE n.body # 0

\* C20: in every state every node of the tree is a leaf or an internal
\* node, never both: a node that has children holds no body, and a node
\* that holds a body has no children.
C20_LeafOrInternal ==
    \A n \in Nodes(root) : ~(HasChildren(n) /\ HasOccupant(n))

\* the number of children a node has (OctreeNode.js: of slots that hold one)
ChildCount(n) ==
    IF impl = "octree.js" THEN Len(n.children)
    ELSE Cardinality({i \in 0..7 : n.children[i] # <<>>})

\* C21: in every reachable state, the states Octree.update leaves included,
\* every node of the tree has no child or exactly eight children.
C21_ZeroOrEightChildren ==
    \A n \in Nodes(root) : ChildCount(n) \in {0, 8}

\* the half extent of a node on the three axes, and its children
HalfExtent(n) ==
    IF impl = "octree.js" THEN Vec3(n.halfSize, n.halfSize, n.halfSize)
    ELSE n.halfDimension

ChildrenOf(n) ==
    IF impl = "octree.js" THEN {n.children[k] : k \in 1..Len(n.children)}
    ELSE {n.children[i][1] : i \in {j \in 0..7 : n.children[j] # <<>>}}

\* the children of n are eight cubes of half its half extent, centred at its
\* centre plus or minus their own half extent on each axis, no two alike
Tiled(n) ==
    /\ Cardinality({c.center : c \in ChildrenOf(n)}) = 8
    /\ \A c \in ChildrenOf(n) :
          /\ HalfExtent(c) = scale(HalfExtent(n), Half)
          /\ \A a \in 1..3 :
                \/ c.center[a] = RAdd(n.center[a], HalfExtent(c)[a])
                \/ c.center[a] = RSub(n.center[a], HalfExtent(c)[a])

\* C22: a subdivided node has 8 children of half its half extent, centred at
\* its centre plus or minus the child's half extent on each axis, so that
\* the children tile the node's region.
C22_SubdivisionTiles ==
    \A n \in Nodes(root) : IsInternal(n) => Tiled(n)

\* the bodies a node itself holds
HeldBy(n) ==
    IF impl = "octree.js" THEN {n.bodies[i] : i \in 1..Len(n.bodies)}
    ELSE {n.body} \ {0}

\* the position lies in the node's region: centre +/- half extent, each axis
InRegion(n, position) ==
    \A a \in 1..3 :
        /\ RLe(RSub(n.center[a], HalfExtent(n)[a]), position[a])
        /\ RLe(position[a], RAdd(n.center[a], HalfExtent(n)[a]))

\* C23: with every body inside the root bounds, every body a leaf holds lies
\* within that leaf's own region.
C23_BodyInsideItsLeaf ==
    InRootBounds =>
        \A n \in Nodes(root) :
            ~IsInternal(n) => \A b \in HeldBy(n) : InRegion(n, Position(b))

\* the number of bodies a node itself holds, and the most a leaf may hold
Occupancy(n) ==
    IF impl = "octree.js" THEN Len(n.bodies) ELSE Cardinality(HeldBy(n))

MaxOccupancy == IF impl = "octree.js" THEN MAX_BODIES_PER_NODE ELSE 1

\* C24: when an Insert has returned, no leaf holds more bodies than the
\* maximum occupancy (1 in OctreeNode.js, MAX_BODIES_PER_NODE in octree.js)
\* and no node with children holds a body.
C24_LeafWithinOccupancy ==
    [][(Insert /\ status' = "ok") =>
          \A n \in Nodes(root') :
              IF IsInternal(n) THEN Occupancy(n) = 0
              ELSE Occupancy(n) <= MaxOccupancy]_vars

\* an octree.js insert that took the root over MAX_BODIES_PER_NODE returned
C24_Witness ==
    /\ impl = "octree.js"
    /\ status = "ok"
    /\ inserted = MAX_BODIES_PER_NODE + 1
    /\ IsInternal(root)
    /\ \E n \in Nodes(root) : ~IsInternal(n) /\ Occupancy(n) > 1

\* the state of a node: 0 empty leaf, 1 occupied leaf, 2 internal
NodeState(n) ==
    IF IsInternal(n) THEN 2 ELSE IF Occupancy(n) > 0 THEN 1 ELSE 0

\* C25: an Insert moves no node backward through empty leaf, occupied leaf,
\* internal (a node is followed by its place in the tree), and only Clear
\* takes the root back to an empty leaf.
C25_NodesMoveForward ==
    [][/\ Insert =>
            \A p \in Pairs(root, root') : NodeState(p[1]) <= NodeState(p[2])
       /\ (NodeState(root) > 0 /\ NodeState(root') = 0) => Clear]_vars

\* every body of an OctreeNode.js build is in, and the root, once an empty
\* leaf, has become internal
C25_Witness ==
    /\ impl = "OctreeNode.js"
    /\ status = "ok"
    /\ inserted = Len(bodies)
    /\ NodeState(root) = 2
    /\ \E n \in Nodes(root) : NodeState(n) = 1

\* the mass of every node of the tree r is the sum of the masses of the
\* bodies its subtree holds
MassConsistent(r) ==
    \A n \in Nodes(r) : n.mass = MassOf(BodiesIn(n))

\* C26: root.remove(body) on a tree whose nodes' masses are those of the
\* bodies they hold leaves a tree whose nodes' masses are those of the
\* bodies that remain.
C26_RemoveUpdatesAggregates ==
    [][(Remove /\ MassConsistent(root)) => MassConsistent(root')]_vars

\* C27: when update() performs an update, no body of the tree has its
\* hasMoved flag set when it returns: root.containsMovedBodies() is false.
C27_UpdateResetsMovedFlags ==
    [][(OctreeUpdate /\ Octree_shouldUpdate(root, oct)) =>
          ~OctNode_containsMovedBodies(root', oct'.hasMoved)]_vars

\* an update is due: the counter has reached the threshold, or a body of
\* the tree is flagged
UpdateDue ==
    \/ oct.framesSinceLastUpdate >= UpdateThreshold
    \/ oct.hasMoved \cap BodiesIn(root) # {}

\* no node of the tree r has an empty leaf for a child
Pruned(r) ==
    \A n \in Nodes(r) : \A c \in ChildrenOf(n) : ~OctNode_isEmpty(c)

\* C28: framesSinceLastUpdate stays within 0..updateThreshold; an update()
\* call made when no update is due adds one to it and leaves the tree
\* alone, a call made when one is due updates the tree and sets it to 0; so
\* at most updateThreshold calls in a row go without an update.
C28_FrameCounter ==
    /\ [](/\ oct.framesSinceLastUpdate \in 0..UpdateThreshold
          /\ oct.calls <= UpdateThreshold)
    /\ [][OctreeUpdate =>
            IF UpdateDue
            THEN /\ oct'.framesSinceLastUpdate = 0
                 /\ oct'.calls = 0
                 /\ Pruned(root')
            ELSE /\ oct'.framesSinceLastUpdate = oct.framesSinceLastUpdate + 1
                 /\ root' = root]_vars

\* the counter reached the threshold with no body flagged, and the update()
\* call after that pruned the subdivided root and set it to 0
C28_Witness ==
    /\ oct.framesSinceLastUpdate = 0
    /\ oct.hasMoved = {}
    /\ ChildCount(root) = 1

\* the places of the tree that hold body b: a leaf and an index of its list
Holders(b) ==
    {h \in {<<n, i>> : n \in Nodes(root), i \in 1..MAX_BODIES_PER_NODE + 1} :
        ~IsInternal(h[1]) /\ h[2] <= Len(h[1].bodies) /\ h[1].bodies[h[2]] = b}

\* C29: in octree.js, with every body inside the root bounds, after inserts,
\* updates and clears every body inserted since the last clear is held by
\* exactly one leaf, once.
C29_EveryBodyInOneLeaf ==
    (impl = "octree.js" /\ InRootBounds /\ status = "ok" /\ oct.removes = 0) =>
        \A b \in 1..inserted : Cardinality(Holders(b)) = 1

\* C30: whenever an update calls octree.calculateGravity (for the force of
\* a body, or for its acceleration), the gravitational constant of the
\* Octree is the Simulation's current gravityConstant.
C30_SameGravityConstant ==
    [][(TickCalculateGravity \/ TickCalculateAcceleration) =>
          oct.gravityConstant = tick.gravityConstant]_vars

=============================================================================
